---- MODULE Spec2Model ----
(***************************************************************************)
(* Model of metrics.py of coverage-at-k: the four metric functions         *)
(* coverage_at_k, auc_catk, coverage_at_q and deviation_from_uniform       *)
(* (alias uniform_divergence_score).                                       *)
(*                                                                         *)
(* Python floats are modelled as exact rationals <<num, den>> in lowest    *)
(* terms with den > 0, so every statement below is about real arithmetic:  *)
(* binary64 rounding (an error of a few ulp in the sums and quotients) is  *)
(* not represented.  A call either returns a number or raises; the outcome *)
(* is the record [kind, val].  Python assert statements are taken as       *)
(* enabled (the interpreter's default).                                    *)
(***************************************************************************)
EXTENDS Integers, Sequences, FiniteSets, TLC

VARIABLES fn, args, pc, result, breakpoints, i, raw_area

vars == <<fn, args, pc, result, breakpoints, i, raw_area>>

(* ------------------------------ bounds --------------------------------- *)

\* number of category keys a map may hold
NumCategories == 3
\* largest count of one category
MaxCount == 3
\* largest total_possible
MaxTotal == 4

Categories == 1..NumCategories

(* ------------------------ exact float arithmetic ----------------------- *)

Abs(x) == IF x < 0 THEN -x ELSE x

RECURSIVE GCD(_, _)
GCD(a, b) == IF b = 0 THEN a ELSE GCD(b, a % b)

\* the number n/d (d > 0) in lowest terms
Rat(n, d) == LET g == GCD(Abs(n), d) IN <<n \div g, d \div g>>

Zero == <<0, 1>>
One == <<1, 1>>
FromInt(n) == <<n, 1>>

Add(a, b) == Rat(a[1] * b[2] + b[1] * a[2], a[2] * b[2])
Sub(a, b) == Rat(a[1] * b[2] - b[1] * a[2], a[2] * b[2])
Mul(a, b) == Rat(a[1] * b[1], a[2] * b[2])
Less(a, b) == a[1] * b[2] < b[1] * a[2]
Leq(a, b) == a[1] * b[2] <= b[1] * a[2]

\* outcomes of a call
Return(v) == [kind |-> "return", val |-> v]
Raise(e) == [kind |-> e, val |-> Zero]
NoResult == [kind |-> "none", val |-> Zero]

\* Python's a / b on numbers
TrueDiv(a, b) ==
  IF b[1] = 0 THEN Raise("ZeroDivisionError")
  ELSE IF b[1] > 0 THEN Return(Rat(a[1] * b[2], a[2] * b[1]))
  ELSE Return(Rat(-(a[1] * b[2]), -(a[2] * b[1])))

\* sum(m.values()) of an integer-valued map
RECURSIVE SumValues(_)
SumValues(m) ==
  IF DOMAIN m = {} THEN 0
  ELSE LET c == CHOOSE x \in DOMAIN m : TRUE
       IN m[c] + SumValues([x \in DOMAIN m \ {c} |-> m[x]])

\* sorted(list(S)) of a set of numbers
RECURSIVE Sorted(_)
Sorted(S) ==
  IF S = {} THEN << >>
  ELSE LET m == CHOOSE x \in S : \A y \in S : Leq(x, y)
       IN <<m>> \o Sorted(S \ {m})

(* ------------------------------ inputs --------------------------------- *)

EmptyMap == << >>

Maps(V) == UNION {[S -> V] : S \in SUBSET Categories}

\* category count maps
CountMaps == Maps(0..MaxCount)

\* thresholds k: integers and half-integers from -1 to MaxCount + 1
KValues == {Rat(j, 2) : j \in (-2)..(2 * MaxCount + 2)}

\* probabilities: every fraction in [0,1] with denominator <= NumCategories
UnitValues == UNION {{Rat(n, d) : n \in 0..d} : d \in 1..NumCategories}

\* floats outside [0,1], which nothing in the code rejects as map values
OutOfRange == {<<-1, 2>>, <<3, 2>>}

ProbValues == UnitValues \cup OutOfRange
ProbMaps == Maps(ProbValues)
QValues == UnitValues \cup OutOfRange

NoArgs == [counts |-> EmptyMap, k |-> Zero, total_possible |-> 0,
           probs |-> EmptyMap, q |-> Zero]

(* --------------------------- coverage_at_k ----------------------------- *)

\* the comparison weakened to "v >= k"
count_not_less_than_k(counts, k) ==
  Cardinality({c \in DOMAIN counts : Leq(k, FromInt(counts[c]))})

count_greater_than_k(counts, k) ==
  Cardinality({c \in DOMAIN counts : Less(k, FromInt(counts[c]))})

\* the total_possible == 0 test left out
coverage_at_k_unguarded(counts, k, total_possible) ==
  TrueDiv(FromInt(count_greater_than_k(counts, k)), FromInt(total_possible))

coverage_at_k(counts, k, total_possible) ==
  IF total_possible = 0 THEN Return(Zero)
  ELSE TrueDiv(FromInt(count_greater_than_k(counts, k)), FromInt(total_possible))

(* ----------------------------- auc_catk -------------------------------- *)

total_items(counts) == SumValues(counts)

num_observed_categories(counts) == Cardinality(DOMAIN counts)

\* math.floor(total_items / num_observed_categories), defined for a non-empty map
even_point(counts) == total_items(counts) \div num_observed_categories(counts)

\* sum(coverage_at_k(counts, k, total_possible) for k in range(lo, hi))
RECURSIVE SumCoverage(_, _, _, _)
SumCoverage(counts, total_possible, lo, hi) ==
  IF lo >= hi THEN Zero
  ELSE Add(coverage_at_k(counts, FromInt(lo), total_possible).val,
           SumCoverage(counts, total_possible, lo + 1, hi))

\* the sum taken over range(even_point + 1)
observed_area_inclusive(counts, total_possible) ==
  SumCoverage(counts, total_possible, 0, even_point(counts) + 1)

\* the sum taken over range(1, even_point)
observed_area_from_one(counts, total_possible) ==
  SumCoverage(counts, total_possible, 1, even_point(counts))

observed_area(counts, total_possible) ==
  SumCoverage(counts, total_possible, 0, even_point(counts))

\* the denominator without the num_observed_categories / total_possible factor
ideal_area_even_point_only(counts, total_possible) ==
  FromInt(even_point(counts))

\* even_point * (num_observed_categories / total_possible), total_possible > 0
ideal_area(counts, total_possible) ==
  Mul(FromInt(even_point(counts)),
      Rat(num_observed_categories(counts), total_possible))

auc_catk(counts, total_possible) ==
  IF total_possible = 0 THEN Return(Zero)
  ELSE IF counts = EmptyMap THEN Return(Zero)
  ELSE IF num_observed_categories(counts) = 0 THEN Return(Zero)
  ELSE IF even_point(counts) <= 0 THEN Return(Zero)
  ELSE IF ideal_area(counts, total_possible) = Zero THEN Return(Zero)
  ELSE TrueDiv(observed_area(counts, total_possible),
               ideal_area(counts, total_possible))

(* --------------------------- coverage_at_q ----------------------------- *)

\* the assertion without its upper bound
q_not_negative(q) == Leq(Zero, q)

\* the assertion with its upper bound made strict
q_below_one(q) == Leq(Zero, q) /\ Less(q, One)

\* the condition of the assert statement
q_in_range(q) == Leq(Zero, q) /\ Leq(q, One)

\* the comparison tightened to "v > q"
count_greater_than_q(probs, q) ==
  Cardinality({c \in DOMAIN probs : Less(q, probs[c])})

count_greater_equal_q(probs, q) ==
  Cardinality({c \in DOMAIN probs : Leq(q, probs[c])})

coverage_at_q(probs, q) ==
  IF probs = EmptyMap THEN Return(Zero)
  ELSE IF ~q_in_range(q) THEN Raise("AssertionError")
  ELSE TrueDiv(FromInt(count_greater_equal_q(probs, q)),
               FromInt(Cardinality(DOMAIN probs)))

(* ------------------------ deviation_from_uniform ----------------------- *)

num_categories(probs) == Cardinality(DOMAIN probs)

\* 1.0 / num_categories, num_categories >= 2
p_uniform(probs) == Rat(1, num_categories(probs))

\* the breakpoint list built without p_uniform
sorted_breakpoints_without_p_uniform(probs) ==
  Sorted({Zero, One} \cup {probs[c] : c \in DOMAIN probs})

\* sorted(list(set([0.0, 1.0, p_uniform] + list(probs.values()))))
sorted_breakpoints(probs) ==
  Sorted({Zero, One, p_uniform(probs)} \cup {probs[c] : c \in DOMAIN probs})

\* the split test tightened to "q_end < p_uniform"
area_term_strict_split(coverage, width, q_end, p_unif) ==
  IF Less(q_end, p_unif) THEN Mul(Sub(One, coverage), width)
  ELSE Mul(coverage, width)

\* both sides of p_uniform accumulated as coverage * width
area_term_no_complement(coverage, width, q_end, p_unif) ==
  Mul(coverage, width)

\* the amount one sub-interval adds to raw_area
area_term(coverage, width, q_end, p_unif) ==
  IF Leq(q_end, p_unif) THEN Mul(Sub(One, coverage), width)
  ELSE Mul(coverage, width)

\* the factor divided by 2 * num_categories
normalization_factor_by_n(n) == Rat(n * n, 2 * n)

\* the factor without the 2 in its denominator
normalization_factor_no_half(n) == Rat(n * n, n - 1)

\* (num_categories**2) / (2 * (num_categories - 1)), num_categories >= 2
normalization_factor(n) == Rat(n * n, 2 * (n - 1))

(* ------------------------------ the calls ------------------------------ *)

Init ==
  /\ fn = "none"
  /\ args = NoArgs
  /\ pc = "ready"
  /\ result = NoResult
  /\ breakpoints = << >>
  /\ i = 0
  /\ raw_area = Zero

\* a caller evaluates coverage_at_k(counts, k, total_possible)
CallCoverageAtK ==
  /\ pc = "ready"
  /\ \E counts \in CountMaps, k \in KValues, total_possible \in 0..MaxTotal :
       /\ args' = [NoArgs EXCEPT !.counts = counts, !.k = k,
                                 !.total_possible = total_possible]
       /\ result' = coverage_at_k(counts, k, total_possible)
  /\ fn' = "coverage_at_k"
  /\ pc' = "done"
  /\ UNCHANGED <<breakpoints, i, raw_area>>

\* a caller evaluates auc_catk(counts, total_possible)
CallAucCatk ==
  /\ pc = "ready"
  /\ \E counts \in CountMaps, total_possible \in 0..MaxTotal :
       /\ args' = [NoArgs EXCEPT !.counts = counts,
                                 !.total_possible = total_possible]
       /\ result' = auc_catk(counts, total_possible)
  /\ fn' = "auc_catk"
  /\ pc' = "done"
  /\ UNCHANGED <<breakpoints, i, raw_area>>

\* a caller evaluates coverage_at_q(probs, q)
CallCoverageAtQ ==
  /\ pc = "ready"
  /\ \E probs \in ProbMaps, q \in QValues :
       /\ args' = [NoArgs EXCEPT !.probs = probs, !.q = q]
       /\ result' = coverage_at_q(probs, q)
  /\ fn' = "coverage_at_q"
  /\ pc' = "done"
  /\ UNCHANGED <<breakpoints, i, raw_area>>

\* entry of deviation_from_uniform(probs), up to the first loop test
Enter(name, probs) ==
  /\ fn' = name
  /\ args' = [NoArgs EXCEPT !.probs = probs]
  /\ IF probs = EmptyMap \/ num_categories(probs) <= 1
     THEN /\ result' = Return(Zero)
          /\ pc' = "done"
          /\ UNCHANGED <<breakpoints, i, raw_area>>
     ELSE /\ breakpoints' = sorted_breakpoints(probs)
          /\ raw_area' = Zero
          /\ i' = 1
          /\ pc' = "loop"
          /\ UNCHANGED result

CallDeviationFromUniform ==
  /\ pc = "ready"
  /\ \E probs \in ProbMaps : Enter("deviation_from_uniform", probs)

\* the alias forwards its argument to deviation_from_uniform
CallUniformDivergenceScore ==
  /\ pc = "ready"
  /\ \E probs \in ProbMaps : Enter("uniform_divergence_score", probs)

\* one iteration of "for i in range(1, len(breakpoints))"
LoopBody ==
  /\ pc = "loop"
  /\ i < Len(breakpoints)
  /\ LET q_start == breakpoints[i]
         q_end == breakpoints[i + 1]
         width == Sub(q_end, q_start)
         coverage == coverage_at_q(args.probs, q_end)
     IN IF width = Zero
        THEN /\ i' = i + 1
             /\ UNCHANGED <<pc, result, raw_area>>
        ELSE IF coverage.kind # "return"
        THEN /\ result' = coverage
             /\ pc' = "done"
             /\ UNCHANGED <<i, raw_area>>
        ELSE /\ raw_area' = Add(raw_area,
                                area_term(coverage.val, width, q_end,
                                          p_uniform(args.probs)))
             /\ i' = i + 1
             /\ UNCHANGED <<pc, result>>
  /\ UNCHANGED <<fn, args, breakpoints>>

\* the loop is exhausted: return normalization_factor * raw_area
LoopExit ==
  /\ pc = "loop"
  /\ i >= Len(breakpoints)
  /\ result' = Return(Mul(normalization_factor(num_categories(args.probs)),
                          raw_area))
  /\ pc' = "done"
  /\ UNCHANGED <<fn, args, breakpoints, i, raw_area>>

Next ==
  \/ CallCoverageAtK
  \/ CallAucCatk
  \/ CallCoverageAtQ
  \/ CallDeviationFromUniform
  \/ CallUniformDivergenceScore
  \/ LoopBody
  \/ LoopExit

Spec == Init /\ [][Next]_vars

TypeOK ==
  /\ fn \in {"none", "coverage_at_k", "auc_catk", "coverage_at_q",
             "deviation_from_uniform", "uniform_divergence_score"}
  /\ pc \in {"ready", "loop", "done"}
  /\ result.kind \in {"none", "return", "AssertionError", "ZeroDivisionError"}
  /\ result.val[2] > 0
  /\ raw_area[2] > 0

(* ------------------------------ properties ----------------------------- *)

Done(name) == pc = "done" /\ fn = name

\* a call of deviation_from_uniform, directly or through its alias
IsDfu == fn \in {"deviation_from_uniform", "uniform_divergence_score"}

\* number of keys whose integer value exceeds the number t
NumAbove(m, t) == Cardinality({c \in DOMAIN m : m[c] * t[2] > t[1]})

\* number of keys whose value is at least the number t
NumAtLeast(m, t) == Cardinality({c \in DOMAIN m : m[c][1] * t[2] >= t[1] * m[c][2]})

\* number of keys whose value exceeds the number t
NumExceeding(m, t) == Cardinality({c \in DOMAIN m : m[c][1] * t[2] > t[1] * m[c][2]})

MaxValue(m) == CHOOSE v \in {m[c] : c \in DOMAIN m} : \A c \in DOMAIN m : m[c] <= v

RECURSIVE SumNumAbove(_, _, _)
SumNumAbove(m, lo, hi) ==
  IF lo >= hi THEN 0 ELSE NumAbove(m, FromInt(lo)) + SumNumAbove(m, lo + 1, hi)

RECURSIVE SumProbs(_)
SumProbs(m) ==
  IF DOMAIN m = {} THEN Zero
  ELSE LET c == CHOOSE x \in DOMAIN m : TRUE
       IN Add(m[c], SumProbs([x \in DOMAIN m \ {c} |-> m[x]]))

InUnit(v) == v[1] >= 0 /\ v[1] <= v[2]

ValuesInUnit(m) == \A c \in DOMAIN m : InUnit(m[c])

\* floor(sum(counts.values()) / len(counts)) of a non-empty map
EvenPointOf(m) == SumValues(m) \div Cardinality(DOMAIN m)

\* C1: with total_possible > 0, coverage_at_k returns the number of keys whose
\* count is strictly greater than k, divided by total_possible; a count equal
\* to k is not counted, so at k = max(counts.values()) the result is 0.
C1_CoverageAtKStrict ==
  (Done("coverage_at_k") /\ args.total_possible > 0) =>
    /\ result = Return(Rat(NumAbove(args.counts, args.k), args.total_possible))
    /\ (args.counts # EmptyMap /\ args.k = FromInt(MaxValue(args.counts)))
         => result = Return(Zero)

C1_Witness ==
  /\ Done("coverage_at_k")
  /\ args.total_possible > 0
  /\ \E c \in DOMAIN args.counts : FromInt(args.counts[c]) = args.k
  /\ \E c \in DOMAIN args.counts : args.counts[c] > args.k[1] /\ args.k[2] = 1
  /\ result.kind = "return"
  /\ result.val # Zero

\* C2 as stated: on a non-empty map and q in [0,1], coverage_at_q returns the
\* number of keys whose probability is strictly greater than q, divided by
\* len(probs).
C2_Original ==
  (Done("coverage_at_q") /\ args.probs # EmptyMap /\ InUnit(args.q)) =>
    result = Return(Rat(NumExceeding(args.probs, args.q),
                        Cardinality(DOMAIN args.probs)))

\* C2 amended: on a non-empty map and q in [0,1], coverage_at_q returns the
\* number of keys whose probability is greater than or equal to q, divided by
\* len(probs); a value equal to q is counted, so a map whose values all equal
\* q gives 1.0, and q = 0 gives 1.0 when no value is negative.
C2_CoverageAtQInclusive ==
  (Done("coverage_at_q") /\ args.probs # EmptyMap /\ InUnit(args.q)) =>
    /\ result = Return(Rat(NumAtLeast(args.probs, args.q),
                           Cardinality(DOMAIN args.probs)))
    /\ (\A c \in DOMAIN args.probs : args.probs[c] = args.q)
         => result = Return(One)
    /\ (args.q = Zero /\ \A c \in DOMAIN args.probs : args.probs[c][1] >= 0)
         => result = Return(One)

C2_Witness ==
  /\ Done("coverage_at_q")
  /\ Cardinality(DOMAIN args.probs) >= 2
  /\ args.q # Zero
  /\ InUnit(args.q)
  /\ \A c \in DOMAIN args.probs : args.probs[c] = args.q
  /\ result = Return(One)

\* C3 as stated: with even_point >= 1, auc_catk returns the sum of
\* coverage_at_k over k = 0 .. even_point-1 divided by even_point alone.
C3_Original ==
  (/\ Done("auc_catk")
   /\ args.counts # EmptyMap
   /\ args.total_possible > 0
   /\ EvenPointOf(args.counts) >= 1) =>
    result = TrueDiv(Rat(SumNumAbove(args.counts, 0, EvenPointOf(args.counts)),
                         args.total_possible),
                     FromInt(EvenPointOf(args.counts)))

\* C3 amended: with even_point >= 1, auc_catk returns the sum of coverage_at_k
\* over k = 0 .. even_point-1 divided by
\* even_point * (len(counts) / total_possible).
C3_AucScaledDenominator ==
  (/\ Done("auc_catk")
   /\ args.counts # EmptyMap
   /\ args.total_possible > 0
   /\ EvenPointOf(args.counts) >= 1) =>
    result = TrueDiv(Rat(SumNumAbove(args.counts, 0, EvenPointOf(args.counts)),
                         args.total_possible),
                     Mul(FromInt(EvenPointOf(args.counts)),
                         Rat(Cardinality(DOMAIN args.counts),
                             args.total_possible)))

C3_Witness ==
  /\ Done("auc_catk")
  /\ args.counts # EmptyMap
  /\ args.total_possible > Cardinality(DOMAIN args.counts)
  /\ EvenPointOf(args.counts) >= 2
  /\ result.kind = "return"
  /\ Less(Zero, result.val)
  /\ Less(result.val, One)

UniformCounts(m, v) ==
  /\ m # EmptyMap
  /\ v >= 1
  /\ \A c \in DOMAIN m : m[c] = v

\* C5: for a uniform count map (every key at the same count v >= 1) and
\* total_possible = len(counts), auc_catk returns 1.0, with even_point,
\* observed_area and ideal_area all equal to v.
C5_AucUniformIsOne ==
  \A v \in 1..(MaxCount + 1) :
    (/\ Done("auc_catk")
     /\ UniformCounts(args.counts, v)
     /\ args.total_possible = Cardinality(DOMAIN args.counts)) =>
      /\ result = Return(One)
      /\ even_point(args.counts) = v
      /\ observed_area(args.counts, args.total_possible) = FromInt(v)
      /\ ideal_area(args.counts, args.total_possible) = FromInt(v)

C5_Witness ==
  /\ Done("auc_catk")
  /\ Cardinality(DOMAIN args.counts) >= 2
  /\ UniformCounts(args.counts, 2)
  /\ args.total_possible = Cardinality(DOMAIN args.counts)
  /\ result = Return(One)

\* the probability map m is uniform over n >= 2 categories
UniformProbs(m) ==
  /\ Cardinality(DOMAIN m) >= 2
  /\ \A c \in DOMAIN m : m[c] = Rat(1, Cardinality(DOMAIN m))

\* C6: on a uniform probability map over n >= 2 categories no sub-interval
\* adds anything to raw_area (neither the one ending at p_uniform nor the one
\* from p_uniform to 1), and deviation_from_uniform returns 0.0.
C6_UniformDeviationIsZero ==
  (IsDfu /\ UniformProbs(args.probs)) =>
    /\ raw_area = Zero
    /\ pc = "done" => result = Return(Zero)

C6_Witness ==
  /\ Done("deviation_from_uniform")
  /\ UniformProbs(args.probs)
  /\ breakpoints = <<Zero, Rat(1, Cardinality(DOMAIN args.probs)), One>>
  /\ i = 3
  /\ result = Return(Zero)

\* the probability map m is one-hot over n >= 2 categories
OneHotProbs(m) ==
  /\ Cardinality(DOMAIN m) >= 2
  /\ \E h \in DOMAIN m :
       /\ m[h] = One
       /\ \A c \in DOMAIN m \ {h} : m[c] = Zero

C8_Original ==
  (IsDfu /\ pc = "done" /\ ValuesInUnit(args.probs)) =>
    /\ result.kind = "return"
    /\ Leq(Zero, result.val)
    /\ Leq(result.val, One)

\* C8 amended: for a probability map whose values each lie in [0,1] and sum
\* to at most 1, deviation_from_uniform and its alias return a number in
\* [0, 1].
C8_DeviationInUnitInterval ==
  (/\ IsDfu
   /\ pc = "done"
   /\ ValuesInUnit(args.probs)
   /\ Leq(SumProbs(args.probs), One)) =>
    /\ result.kind = "return"
    /\ Leq(Zero, result.val)
    /\ Leq(result.val, One)

C8_Witness ==
  /\ Done("uniform_divergence_score")
  /\ Cardinality(DOMAIN args.probs) >= 3
  /\ ValuesInUnit(args.probs)
  /\ Less(SumProbs(args.probs), One)
  /\ result.kind = "return"
  /\ Less(Zero, result.val)
  /\ Less(result.val, One)

\* C9 as stated: for every probability map, the empty one included, a call
\* coverage_at_q(probs, q) with q < 0 or q > 1 fails with the assertion.
C9_Original ==
  (Done("coverage_at_q") /\ ~InUnit(args.q)) =>
    result.kind = "AssertionError"

\* C9 amended: for every non-empty probability map, a call
\* coverage_at_q(probs, q) with q < 0 or q > 1 fails with the assertion and
\* returns no number.
C9_OutOfRangeAsserts ==
  (Done("coverage_at_q") /\ args.probs # EmptyMap /\ ~InUnit(args.q)) =>
    result.kind = "AssertionError"

C9_Witness ==
  /\ Done("coverage_at_q")
  /\ args.probs # EmptyMap
  /\ args.q = <<3, 2>>
  /\ result.kind = "AssertionError"

\* C10: degenerate inputs give 0.0 and no error: coverage_at_k with
\* total_possible = 0; auc_catk with total_possible = 0, an empty map or
\* even_point <= 0; coverage_at_q with q in [0,1] and an empty map;
\* deviation_from_uniform with zero or one category.
C10_DegenerateIsZero ==
  /\ (Done("coverage_at_k") /\ args.total_possible = 0)
       => result = Return(Zero)
  /\ (Done("auc_catk") /\ args.total_possible = 0)
       => result = Return(Zero)
  /\ (Done("auc_catk") /\ args.counts = EmptyMap)
       => result = Return(Zero)
  /\ (Done("auc_catk") /\ args.counts # EmptyMap /\ EvenPointOf(args.counts) <= 0)
       => result = Return(Zero)
  /\ (Done("coverage_at_q") /\ InUnit(args.q) /\ args.probs = EmptyMap)
       => result = Return(Zero)
  /\ (IsDfu /\ pc = "done" /\ Cardinality(DOMAIN args.probs) <= 1)
       => result = Return(Zero)

C10_Witness ==
  /\ Done("coverage_at_k")
  /\ args.total_possible = 0
  /\ NumAbove(args.counts, args.k) >= 2
  /\ result = Return(Zero)

\* the deviation_from_uniform frame is past its entry tests
InLoopOrAfter ==
  IsDfu /\ pc \in {"loop", "done"} /\ Cardinality(DOMAIN args.probs) >= 2

\* C11: in deviation_from_uniform on a map with n >= 2 categories, every
\* consecutive pair (q_start, q_end) of the breakpoint list has
\* q_end > q_start and either q_end <= p_uniform or q_start >= p_uniform, so
\* no sub-interval straddles p_uniform and none has zero width.
C11_NoStraddlingInterval ==
  InLoopOrAfter =>
    \A j \in 1..(Len(breakpoints) - 1) :
      /\ breakpoints[j][1] * breakpoints[j + 1][2]
           < breakpoints[j + 1][1] * breakpoints[j][2]
      /\ \/ breakpoints[j + 1][1] * Cardinality(DOMAIN args.probs)
              <= breakpoints[j + 1][2]
         \/ breakpoints[j][1] * Cardinality(DOMAIN args.probs)
              >= breakpoints[j][2]

C11_Witness ==
  /\ InLoopOrAfter
  /\ pc = "loop"
  /\ i = 2
  /\ Len(breakpoints) >= 5
  /\ \E c \in DOMAIN args.probs :
       /\ Less(Zero, args.probs[c])
       /\ Less(args.probs[c], p_uniform(args.probs))
  /\ \E c \in DOMAIN args.probs :
       /\ Less(p_uniform(args.probs), args.probs[c])
       /\ Less(args.probs[c], One)
  /\ \A c \in DOMAIN args.probs : args.probs[c] # p_uniform(args.probs)

RECURSIVE LcmUpTo(_)
LcmUpTo(n) ==
  IF n <= 1 THEN 1
  ELSE (LcmUpTo(n - 1) * n) \div GCD(LcmUpTo(n - 1), n)

\* number of cells of the fine grid on [0,1]; every value of UnitValues and
\* every p_uniform is a grid point
FineCells == LcmUpTo(NumCategories)

\* grid points and cell midpoints in (0,1]
FinePoints == {Rat(t, 2 * FineCells) : t \in 1..(2 * FineCells)}

\* the integrand at q: 1 - C(q) below p_uniform, C(q) above it
Integrand(m, q) ==
  IF q[1] * Cardinality(DOMAIN m) <= q[2]
  THEN Sub(One, coverage_at_q(m, q).val)
  ELSE coverage_at_q(m, q).val

\* midpoint-rule integration of the integrand over cells lo+1 .. hi
RECURSIVE MidpointSum(_, _, _)
MidpointSum(m, lo, hi) ==
  IF lo >= hi THEN Zero
  ELSE Add(Mul(Integrand(m, Rat(2 * lo + 1, 2 * FineCells)), Rat(1, FineCells)),
           MidpointSum(m, lo + 1, hi))

\* C12: in deviation_from_uniform on a map with values in [0,1], the value
\* coverage_at_q(probs, q_end) used for a consecutive breakpoint pair equals
\* coverage_at_q(probs, q) for every q with q_start < q <= q_end, and the
\* accumulated raw_area equals the integral over [0,1] of 1 - C(q) below
\* p_uniform plus C(q) above it, as a fine-grained integration gives it.
C12_RightEndpointIsExact ==
  (InLoopOrAfter /\ ValuesInUnit(args.probs)) =>
    /\ \A j \in 1..(Len(breakpoints) - 1) :
         \A q \in FinePoints :
           (Less(breakpoints[j], q) /\ Leq(q, breakpoints[j + 1])) =>
             coverage_at_q(args.probs, q)
               = coverage_at_q(args.probs, breakpoints[j + 1])
    /\ pc = "done" => raw_area = MidpointSum(args.probs, 0, FineCells)

C12_Witness ==
  /\ InLoopOrAfter
  /\ pc = "done"
  /\ ValuesInUnit(args.probs)
  /\ Len(breakpoints) >= 5
  /\ \E c \in DOMAIN args.probs : Less(args.probs[c], p_uniform(args.probs))
  /\ \E c \in DOMAIN args.probs : Less(p_uniform(args.probs), args.probs[c])
  /\ raw_area = MidpointSum(args.probs, 0, FineCells)
  /\ Less(Zero, raw_area)

\* C13: in deviation_from_uniform on a map with n >= 2 categories and values
\* in [0,1], every threshold q_end passed to coverage_at_q lies in [0,1], the
\* assertion never fails, and the loop runs to the last breakpoint and the
\* function returns a number.
C13_LoopNeverAsserts ==
  (InLoopOrAfter /\ ValuesInUnit(args.probs)) =>
    /\ i >= 1
    /\ i <= Len(breakpoints)
    /\ (pc = "loop" /\ i < Len(breakpoints)) =>
         /\ breakpoints[i + 1][1] >= 0
         /\ breakpoints[i + 1][1] <= breakpoints[i + 1][2]
         /\ coverage_at_q(args.probs, breakpoints[i + 1]).kind = "return"
    /\ pc = "done" =>
         /\ i = Len(breakpoints)
         /\ result.kind = "return"

C13_Witness ==
  /\ InLoopOrAfter
  /\ pc = "done"
  /\ ValuesInUnit(args.probs)
  /\ \E c \in DOMAIN args.probs : args.probs[c] = One
  /\ \E c \in DOMAIN args.probs : args.probs[c] = Zero
  /\ Len(breakpoints) >= 4
  /\ i = Len(breakpoints)
  /\ result.kind = "return"

====
